---- MODULE Spec2Model ----
(***************************************************************************)
(* Model of the mas-dm backend: the decision workflow graph                *)
(* (backend/app/core/graph/nodes.py), the process repositories             *)
(* (backend/app/services/redis_repository.py) and the ProcessManager       *)
(* (backend/app/services/process_manager.py).                              *)
(*                                                                         *)
(* Optional values (Python None / a value) are sequences of length 0 / 1.  *)
(* Python strings are TLA+ strings; the text buffer complementary_info is  *)
(* the sequence of the pieces appended to it.                              *)
(***************************************************************************)
EXTENDS Integers, Sequences, FiniteSets, TLC

\* ------------------------------------------------------------------------
\* Bounds of the model
\* ------------------------------------------------------------------------
\* number of process ids uuid4 can hand out
MaxIds == 2
\* number of concurrently scheduled execute_process calls
MaxTasks == 2
\* cap of the instrumentation counters (writes per field, calls per agent)
MaxCount == 4
\* number of rejections the evaluators of a counted graph run give in all
MaxRejections == 2
\* last hour of the wall clock when the repositories are driven directly
MaxTime == 2

\* ------------------------------------------------------------------------
\* Optional values
\* ------------------------------------------------------------------------
None == << >>
Some(x) == << x >>
IsNone(o) == Len(o) = 0
Val(o) == o[1]
Inc(n) == IF n < MaxCount THEN n + 1 ELSE n

\* ------------------------------------------------------------------------
\* Inputs: what the callers and the Reasoning Service may supply
\* ------------------------------------------------------------------------
Queries == {"q1", "q2"}
\* free-text answers of the stage agents
Answers == {"a1", "a2"}
\* the answers of the stage agents inside the processes of the manager
ProcessAnswers == {"a1"}
\* feedback comments of the evaluators (EvaluationOutput.comment, at least
\* ten characters long, hence never empty)
Comments == {"comment-one"}
\* texts returned by the information-retrieval agent
Infos == {"info"}
\* what Prompt.ask may return when GetDecision has to prompt
PromptInputs == {"typed-query"}
\* messages of the errors the Reasoning Service may raise (str(e))
ErrorMessages == {"provider error"}
\* structured answers of the result agent
ResultOutput(r, b, rc, bc) ==
    [result |-> r, best_alternative_result |-> b,
     result_comment |-> rc, best_alternative_result_comment |-> bc]
ResultOutputs == {ResultOutput("r1", "b1", "rc1", "bc1"),
                  ResultOutput("r2", "b2", "rc2", "bc2")}
\* the answer of the result agent inside the processes of the manager
ProcessResults == {ResultOutput("r1", "b1", "rc1", "bc1")}
\* evaluator verdicts
EvaluationOutput == [correct : BOOLEAN, comment : Comments]
\* the verdicts of the evaluators inside the processes of the manager
ProcessEvaluations == [correct : {TRUE}, comment : Comments]

\* ------------------------------------------------------------------------
\* DecisionState
\* ------------------------------------------------------------------------
StateFields ==
    {"decision_requested", "trigger", "root_cause", "scope_definition",
     "decision_drafted", "goals", "stakeholders", "complementary_info",
     "complementary_info_num", "decision_draft_updated",
     "generated_alternatives", "alternatives", "result", "result_comment",
     "best_alternative_result", "best_alternative_result_comment"}

DecisionState(decision_requested) ==
    [decision_requested |-> decision_requested,
     trigger |-> "",
     root_cause |-> "",
     scope_definition |-> "",
     decision_drafted |-> "",
     goals |-> "",
     stakeholders |-> "",
     complementary_info |-> << >>,
     complementary_info_num |-> 0,
     decision_draft_updated |-> "",
     generated_alternatives |-> "",
     alternatives |-> "",
     result |-> "",
     result_comment |-> "",
     best_alternative_result |-> "",
     best_alternative_result_comment |-> ""]

\* ------------------------------------------------------------------------
\* Graph nodes (backend/app/core/graph/nodes.py)
\*
\* A node instance carries the dataclass fields of its class: evaluation and
\* complementary_info for a stage node, answer for an evaluator node.  A graph
\* run is the node about to run, the DecisionState, the prompt last sent to a
\* stage agent, and the instrumentation of the run: the number of assignments
\* made to each DecisionState field, the number of information-retrieval
\* calls, whether the stage-7 evaluator has ever answered "correct", the
\* context last sent to an evaluator agent and the context last sent to the
\* information-retrieval agent.
\* ------------------------------------------------------------------------
Node(name, evaluation, complementary_info, answer) ==
    [name |-> name, evaluation |-> evaluation,
     complementary_info |-> complementary_info, answer |-> answer]

StageNode(name) == Node(name, None, None, None)
RetryNode(name, comment) == Node(name, Some(comment), None, None)
EvaluatorNode(name, answer) == Node(name, None, None, Some(answer))
End == Node("End", None, None, None)

RetryText == "You gave an answer but that was not correct."

\* the prompt of a stage: the base prompt, then the retry text and the
\* evaluation comment when the node carries one
PromptWithEvaluation(base, retryContext, evaluation) ==
    IF ~IsNone(evaluation)
    THEN base \o retryContext \o << RetryText, Val(evaluation) >>
    ELSE base

\* ctx.state.<field> = value
Assign(g, fld, value) ==
    [g EXCEPT !.state[fld] = value, !.writes[fld] = Inc(@)]

GraphRun(node, state) ==
    [node |-> node, state |-> state, prompt |-> << >>,
     writes |-> [f \in StateFields |-> 0],
     retrievals |-> 0, approved7 |-> FALSE,
     validation |-> << >>, retrieval |-> << >>]

\* GetDecision.run: prompts only when decision_requested is empty
GetDecision(g, typed) ==
    LET g1 == IF g.state.decision_requested = ""
              THEN Assign(g, "decision_requested", typed)
              ELSE g
    IN [g1 EXCEPT !.node = StageNode("IdentifyTrigger")]

\* the run method shared by the plain stage nodes: build the prompt, call the
\* stage agent, hand its output to the evaluator node
AgentRun(g, base, retryContext, output, evaluator) ==
    [g EXCEPT !.prompt = PromptWithEvaluation(base, retryContext, g.node.evaluation),
              !.node = EvaluatorNode(evaluator, output)]

IdentifyTrigger(g, output) ==
    AgentRun(g, << g.state.decision_requested >>, << >>, output,
             "Evaluate_IdentifyTrigger")

AnalyzeRootCause(g, output) ==
    AgentRun(g, << g.state.decision_requested, g.state.trigger >>, << >>, output,
             "Evaluate_AnalyzeRootCause")

ScopeDefinition(g, output) ==
    AgentRun(g, << g.state.decision_requested, g.state.trigger,
                   g.state.root_cause >>, << >>, output,
             "Evaluate_ScopeDefinition")

Drafting(g, output) ==
    AgentRun(g, << g.state.decision_requested, g.state.trigger,
                   g.state.root_cause, g.state.scope_definition >>, << >>, output,
             "Evaluate_Drafting")

EstablishGoals(g, output) ==
    AgentRun(g, << g.state.decision_drafted >>, << >>, output,
             "Evaluate_EstablishGoals")

\* IdentifyInformationNeeded.run: evaluation first, else the complementary
\* info when the node was re-entered after a retrieval
IdentifyInformationNeeded(g, output) ==
    LET base == << g.state.decision_drafted, g.state.goals >>
        prompt == IF ~IsNone(g.node.evaluation)
                  THEN base \o << RetryText, Val(g.node.evaluation) >>
                  ELSE IF g.node.complementary_info = Some(TRUE)
                       THEN base \o g.state.complementary_info
                       ELSE base
    IN [g EXCEPT !.prompt = prompt,
                 !.node = EvaluatorNode("Evaluate_IdentifyInformationNeeded", output)]

UpdateDraft(g, output) ==
    LET base == IF g.state.complementary_info_num > 0
                THEN << g.state.decision_drafted >> \o g.state.complementary_info
                ELSE << g.state.decision_drafted >>
    IN AgentRun(g, base, << >>, output, "Evaluate_UpdateDraft")

GenerationOfAlternatives(g, output) ==
    AgentRun(g, << g.state.decision_draft_updated >>, << g.state.alternatives >>,
             output, "Evaluate_GenerationOfAlternatives")

Result(g, output) ==
    AgentRun(g, << g.state.decision_draft_updated, g.state.alternatives >>,
             << g.state.result, g.state.result_comment,
                g.state.best_alternative_result,
                g.state.best_alternative_result_comment >>,
             output, "Evaluate_Result")

\* <evaluator agent>.run(format_as_xml({...})): the values of the context
\* handed to the evaluator agent
Validation(g, context) == [g EXCEPT !.validation = context]

\* a variant of the evaluator nodes that starts the workflow over after a
\* rejection
EvaluatorRun_RestartOnReject(g, verdict, fld, stage, next) ==
    IF verdict.correct
    THEN [Assign(g, fld, Val(g.node.answer)) EXCEPT !.node = StageNode(next)]
    ELSE [g EXCEPT !.node = RetryNode("IdentifyTrigger", verdict.comment)]

\* a variant of the evaluator nodes that moves on to the next stage after a
\* rejection, leaving the field as it was
EvaluatorRun_AdvanceOnReject(g, verdict, fld, stage, next) ==
    IF verdict.correct
    THEN [Assign(g, fld, Val(g.node.answer)) EXCEPT !.node = StageNode(next)]
    ELSE [g EXCEPT !.node = StageNode(next)]

\* a variant of the evaluator nodes that commits the answer before looking at
\* the verdict, so that a rejected answer is written as well
EvaluatorRun_CommitAlways(g, verdict, fld, stage, next) ==
    LET g1 == Assign(g, fld, Val(g.node.answer))
    IN IF verdict.correct
       THEN [g1 EXCEPT !.node = StageNode(next)]
       ELSE [g1 EXCEPT !.node = RetryNode(stage, verdict.comment)]

\* the run method shared by the plain evaluator nodes: on "correct" commit
\* the answer to the stage's field and go to the next stage, otherwise go
\* back to the same stage with the comment
EvaluatorRun(g, verdict, fld, stage, next) ==
    IF verdict.correct
    THEN [Assign(g, fld, Val(g.node.answer)) EXCEPT !.node = StageNode(next)]
    ELSE [g EXCEPT !.node = RetryNode(stage, verdict.comment)]

Evaluate_IdentifyTrigger(g, verdict) ==
    EvaluatorRun(Validation(g, << g.state.decision_requested, Val(g.node.answer) >>),
                 verdict, "trigger", "IdentifyTrigger", "AnalyzeRootCause")

Evaluate_AnalyzeRootCause(g, verdict) ==
    EvaluatorRun(Validation(g, << g.state.decision_requested, g.state.trigger,
                                  Val(g.node.answer) >>),
                 verdict, "root_cause", "AnalyzeRootCause", "ScopeDefinition")

Evaluate_ScopeDefinition(g, verdict) ==
    EvaluatorRun(Validation(g, << g.state.decision_requested, g.state.trigger,
                                  g.state.root_cause, Val(g.node.answer) >>),
                 verdict, "scope_definition", "ScopeDefinition", "Drafting")

Evaluate_Drafting(g, verdict) ==
    EvaluatorRun(Validation(g, << g.state.decision_requested, g.state.trigger,
                                  g.state.root_cause, g.state.scope_definition,
                                  Val(g.node.answer) >>),
                 verdict, "decision_drafted", "Drafting", "EstablishGoals")

Evaluate_EstablishGoals(g, verdict) ==
    EvaluatorRun(Validation(g, << g.state.decision_drafted >>),
                 verdict, "goals", "EstablishGoals", "IdentifyInformationNeeded")

\* the threshold of the forced advance (nodes.py:600)
MaxComplementaryInfo == 3

\* a variant whose forced advance compares with > instead of >=
Evaluate_IdentifyInformationNeeded_OffByOne(g, verdict, info) ==
    LET g0 == [Validation(g, << g.state.decision_drafted >>)
                  EXCEPT !.approved7 = @ \/ verdict.correct]
    IN IF verdict.correct \/ g.state.complementary_info_num > MaxComplementaryInfo
       THEN [g0 EXCEPT !.node = StageNode("UpdateDraft")]
       ELSE LET g1 == Assign(g0, "complementary_info",
                             Append(g0.state.complementary_info, info))
                g2 == Assign(g1, "complementary_info_num",
                             g1.state.complementary_info_num + 1)
            IN [g2 EXCEPT !.retrievals = Inc(@),
                          !.retrieval = << g.state.decision_drafted,
                                           Val(g.node.answer) >>,
                          !.node = Node("IdentifyInformationNeeded",
                                        None, Some(TRUE), None)]

\* a variant without the forced advance: at the threshold a rejection
\* re-enters the stage with nothing retrieved
Evaluate_IdentifyInformationNeeded_NeverForced(g, verdict, info) ==
    LET g0 == [Validation(g, << g.state.decision_drafted >>)
                  EXCEPT !.approved7 = @ \/ verdict.correct]
    IN IF verdict.correct
       THEN [g0 EXCEPT !.node = StageNode("UpdateDraft")]
       ELSE IF g.state.complementary_info_num >= MaxComplementaryInfo
       THEN [g0 EXCEPT !.node = Node("IdentifyInformationNeeded",
                                     None, Some(TRUE), None)]
       ELSE LET g1 == Assign(g0, "complementary_info",
                             Append(g0.state.complementary_info, info))
                g2 == Assign(g1, "complementary_info_num",
                             g1.state.complementary_info_num + 1)
            IN [g2 EXCEPT !.retrievals = Inc(@),
                          !.retrieval = << g.state.decision_drafted,
                                           Val(g.node.answer) >>,
                          !.node = Node("IdentifyInformationNeeded",
                                        None, Some(TRUE), None)]

\* a variant that clears the counter when it advances to UpdateDraft
Evaluate_IdentifyInformationNeeded_ResetsCounter(g, verdict, info) ==
    LET g0 == [Validation(g, << g.state.decision_drafted >>)
                  EXCEPT !.approved7 = @ \/ verdict.correct]
    IN IF verdict.correct \/ g.state.complementary_info_num >= MaxComplementaryInfo
       THEN [Assign(g0, "complementary_info_num", 0)
                EXCEPT !.node = StageNode("UpdateDraft")]
       ELSE LET g1 == Assign(g0, "complementary_info",
                             Append(g0.state.complementary_info, info))
                g2 == Assign(g1, "complementary_info_num",
                             g1.state.complementary_info_num + 1)
            IN [g2 EXCEPT !.retrievals = Inc(@),
                          !.retrieval = << g.state.decision_drafted,
                                           Val(g.node.answer) >>,
                          !.node = Node("IdentifyInformationNeeded",
                                        None, Some(TRUE), None)]

\* Evaluate_IdentifyInformationNeeded.run: advance on "correct" or when the
\* counter has reached the threshold (nothing is committed); otherwise call
\* the retrieval agent, append its output, count it and re-enter the stage
Evaluate_IdentifyInformationNeeded(g, verdict, info) ==
    LET g0 == [Validation(g, << g.state.decision_drafted >>)
                  EXCEPT !.approved7 = @ \/ verdict.correct]
    IN IF verdict.correct \/ g.state.complementary_info_num >= MaxComplementaryInfo
       THEN [g0 EXCEPT !.node = StageNode("UpdateDraft")]
       ELSE LET g1 == Assign(g0, "complementary_info",
                             Append(g0.state.complementary_info, info))
                g2 == Assign(g1, "complementary_info_num",
                             g1.state.complementary_info_num + 1)
            IN [g2 EXCEPT !.retrievals = Inc(@),
                          !.retrieval = << g.state.decision_drafted,
                                           Val(g.node.answer) >>,
                          !.node = Node("IdentifyInformationNeeded",
                                        None, Some(TRUE), None)]

Evaluate_UpdateDraft(g, verdict) ==
    EvaluatorRun(Validation(g, << g.state.decision_drafted >>),
                 verdict, "decision_draft_updated", "UpdateDraft",
                 "GenerationOfAlternatives")

Evaluate_GenerationOfAlternatives(g, verdict) ==
    EvaluatorRun(Validation(g, << g.state.decision_drafted >>),
                 verdict, "alternatives", "GenerationOfAlternatives", "Result")

\* a variant of the Result evaluator that gives up after a rejection and ends
\* the run with the four fields as they were
Evaluate_Result_EndsOnReject(g, verdict) ==
    IF verdict.correct
    THEN LET a == Val(g.node.answer)
             g0 == Validation(g, << g.state.decision_drafted >>)
             g1 == Assign(g0, "result", a.result)
             g2 == Assign(g1, "result_comment", a.result_comment)
             g3 == Assign(g2, "best_alternative_result", a.best_alternative_result)
             g4 == Assign(g3, "best_alternative_result_comment",
                          a.best_alternative_result_comment)
         IN [g4 EXCEPT !.node = End]
    ELSE [Validation(g, << g.state.decision_drafted >>) EXCEPT !.node = End]

\* Evaluate_Result.run: on "correct" commit the four fields and end the run
Evaluate_Result(g, verdict) ==
    IF verdict.correct
    THEN LET a == Val(g.node.answer)
             g0 == Validation(g, << g.state.decision_drafted >>)
             g1 == Assign(g0, "result", a.result)
             g2 == Assign(g1, "result_comment", a.result_comment)
             g3 == Assign(g2, "best_alternative_result", a.best_alternative_result)
             g4 == Assign(g3, "best_alternative_result_comment",
                          a.best_alternative_result_comment)
         IN [g4 EXCEPT !.node = End]
    ELSE [Validation(g, << g.state.decision_drafted >>)
             EXCEPT !.node = RetryNode("Result", verdict.comment)]

\* the successors of a graph run after one node has run without an error:
\* one per output the Reasoning Service (or the prompt) may give, the stage
\* agents and the evaluators answering from the given sets
NodeRun(g, answers, results, verdicts) ==
    LET n == g.node.name
    IN CASE n = "GetDecision" -> {GetDecision(g, typed) : typed \in PromptInputs}
         [] n = "IdentifyTrigger" -> {IdentifyTrigger(g, a) : a \in answers}
         [] n = "AnalyzeRootCause" -> {AnalyzeRootCause(g, a) : a \in answers}
         [] n = "ScopeDefinition" -> {ScopeDefinition(g, a) : a \in answers}
         [] n = "Drafting" -> {Drafting(g, a) : a \in answers}
         [] n = "EstablishGoals" -> {EstablishGoals(g, a) : a \in answers}
         [] n = "IdentifyInformationNeeded" ->
                {IdentifyInformationNeeded(g, a) : a \in answers}
         [] n = "UpdateDraft" -> {UpdateDraft(g, a) : a \in answers}
         [] n = "GenerationOfAlternatives" ->
                {GenerationOfAlternatives(g, a) : a \in answers}
         [] n = "Result" -> {Result(g, a) : a \in results}
         [] n = "Evaluate_IdentifyTrigger" ->
                {Evaluate_IdentifyTrigger(g, v) : v \in verdicts}
         [] n = "Evaluate_AnalyzeRootCause" ->
                {Evaluate_AnalyzeRootCause(g, v) : v \in verdicts}
         [] n = "Evaluate_ScopeDefinition" ->
                {Evaluate_ScopeDefinition(g, v) : v \in verdicts}
         [] n = "Evaluate_Drafting" ->
                {Evaluate_Drafting(g, v) : v \in verdicts}
         [] n = "Evaluate_EstablishGoals" ->
                {Evaluate_EstablishGoals(g, v) : v \in verdicts}
         [] n = "Evaluate_IdentifyInformationNeeded" ->
                {Evaluate_IdentifyInformationNeeded(g, v, i) :
                    v \in verdicts, i \in Infos}
         [] n = "Evaluate_UpdateDraft" ->
                {Evaluate_UpdateDraft(g, v) : v \in verdicts}
         [] n = "Evaluate_GenerationOfAlternatives" ->
                {Evaluate_GenerationOfAlternatives(g, v) : v \in verdicts}
         [] n = "Evaluate_Result" ->
                {Evaluate_Result(g, v) : v \in verdicts}
         [] OTHER -> {}

\* DecisionService.run_decision up to the first node: a fresh DecisionState
\* holding the query, and GetDecision as the first node
run_decision(decision_query) ==
    GraphRun(StageNode("GetDecision"), DecisionState(decision_query))

\* ------------------------------------------------------------------------
\* ProcessInfo (backend/app/models/domain.py)
\* ------------------------------------------------------------------------
\* The model declares six fields and no "query"; pydantic ignores the
\* keyword arguments it does not know, so the query passed to the
\* constructor is dropped.
ProcessInfo(process_id, query, status, result, error, created_at, completed_at) ==
    [process_id |-> process_id, status |-> status, result |-> result,
     error |-> error, created_at |-> created_at, completed_at |-> completed_at]

\* hasattr(obj, name): reading a missing attribute raises AttributeError
HasAttr(obj, name) == name \in DOMAIN obj

AttributeErrorText == "'ProcessInfo' object has no attribute 'query'"

\* ------------------------------------------------------------------------
\* Repositories (backend/app/services/redis_repository.py)
\*
\* A repository value holds the state of both implementations; kind says
\* which one the ProcessManager was given.  storage is the dict of the
\* in-memory repository.  hashes, results, all and completed are the keys of
\* the Redis adapter: the metadata hash and the pickled result per id, the
\* set of all ids, and the sorted set of completed ids with their scores;
\* hash_ttl and result_ttl are the ids whose metadata key and whose result key
\* carry an expiry.
\* An operation returns the new repository, its return value, and the
\* exception it raised (None when it returned normally).
\* ------------------------------------------------------------------------
EmptyRepository(kind) ==
    [kind |-> kind, storage |-> << >>, hashes |-> << >>, results |-> << >>,
     all |-> {}, completed |-> << >>, hash_ttl |-> {}, result_ttl |-> {}]

\* dict assignment d[k] = v and deletion del d[k]
Put(d, k, v) == [x \in DOMAIN d \cup {k} |-> IF x = k THEN v ELSE d[x]]
Del(d, k) == [x \in DOMAIN d \ {k} |-> d[x]]

Reply(repo, value, raised) == [repo |-> repo, value |-> value, raised |-> raised]

\* Python's  x or ""  and  x or None  on an optional string
OrEmpty(o) == IF IsNone(o) THEN "" ELSE Val(o)
OrNone(s) == IF s = "" THEN None ELSE Some(s)

InMemorySave(repo, process) ==
    Reply([repo EXCEPT !.storage = Put(@, process.process_id, process)], None, None)

InMemoryGet(repo, process_id) ==
    IF process_id \in DOMAIN repo.storage
    THEN Some(repo.storage[process_id])
    ELSE None

InMemoryExists(repo, process_id) == process_id \in DOMAIN repo.storage

InMemoryDelete(repo, process_id) ==
    IF process_id \in DOMAIN repo.storage
    THEN Reply([repo EXCEPT !.storage = Del(@, process_id)], TRUE, None)
    ELSE Reply(repo, FALSE, None)

InMemoryListAll(repo) == {repo.storage[p] : p \in DOMAIN repo.storage}

\* a variant that removes the completed processes and forgets the failed ones
InMemoryCleanupCompleted_OnlyCompleted(repo, older_than_hours) ==
    LET to_delete == {p \in DOMAIN repo.storage :
                        repo.storage[p].status = "completed"}
    IN Reply([repo EXCEPT !.storage = [p \in DOMAIN @ \ to_delete |-> @[p]]],
             Cardinality(to_delete), None)

\* removes every completed or failed process; older_than_hours is not used
InMemoryCleanupCompleted(repo, older_than_hours) ==
    LET to_delete == {p \in DOMAIN repo.storage :
                        repo.storage[p].status \in {"completed", "failed"}}
    IN Reply([repo EXCEPT !.storage = [p \in DOMAIN @ \ to_delete |-> @[p]]],
             Cardinality(to_delete), None)

\* RedisProcessRepository.save: building the metadata reads process.query,
\* which a ProcessInfo does not have; the AttributeError is not a RedisError
\* and leaves save before the pipeline is built.  The pipeline is one
\* MULTI/EXEC batch: HSET keeps the expiry the metadata key has, SET drops the
\* expiry of the result key, EXPIRE gives the key the retention period.
RedisSave(repo, process) ==
    IF ~HasAttr(process, "query")
    THEN Reply(repo, None, Some(AttributeErrorText))
    ELSE LET pid == process.process_id
             metadata == [process_id |-> pid,
                          status |-> process.status,
                          error |-> OrEmpty(process.error),
                          query |-> process.query,
                          created_at |-> process.created_at,
                          completed_at |-> process.completed_at]
             done == process.status \in {"completed", "failed"}
                     /\ ~IsNone(process.completed_at)
         IN Reply([repo EXCEPT
                     !.hashes = Put(@, pid, metadata),
                     !.results = IF ~IsNone(process.result)
                                 THEN Put(@, pid, Val(process.result)) ELSE @,
                     !.all = @ \cup {pid},
                     !.completed = IF done
                                   THEN Put(@, pid, Val(process.completed_at))
                                   ELSE @,
                     !.hash_ttl = IF done THEN @ \cup {pid} ELSE @,
                     !.result_ttl = IF IsNone(process.result) THEN @
                                    ELSE IF done THEN @ \cup {pid}
                                    ELSE @ \ {pid}],
                  None, None)

\* RedisProcessRepository.get: HGETALL of the metadata hash in the store as
\* it is at the first command, then GET of the result key in the store as it
\* is at the second (later).  A timestamp is None or a time, and the text of
\* a time is never empty, so "or ''" in save and "or None" in get take None
\* to '' and back.
RedisGetAcross(repo, later, process_id) ==
    IF process_id \notin DOMAIN repo.hashes
    THEN None
    ELSE LET metadata == repo.hashes[process_id]
             result == IF process_id \in DOMAIN later.results
                       THEN Some(later.results[process_id]) ELSE None
         IN Some(ProcessInfo(metadata.process_id, metadata.query, metadata.status,
                             result, OrNone(metadata.error),
                             metadata.created_at, metadata.completed_at))

\* get with no other client writing between its two commands
RedisGet(repo, process_id) == RedisGetAcross(repo, repo, process_id)

RedisExists(repo, process_id) == process_id \in repo.all

RedisDelete(repo, process_id) ==
    IF ~RedisExists(repo, process_id)
    THEN Reply(repo, FALSE, None)
    ELSE Reply([repo EXCEPT !.hashes = Del(@, process_id),
                            !.results = Del(@, process_id),
                            !.all = @ \ {process_id},
                            !.completed = Del(@, process_id),
                            !.hash_ttl = @ \ {process_id},
                            !.result_ttl = @ \ {process_id}],
               TRUE, None)

RedisListAll(repo) ==
    {Val(RedisGet(repo, p)) : p \in {q \in repo.all : ~IsNone(RedisGet(repo, q))}}

\* deletes the ids whose score is at most now - older_than_hours (the clock
\* counts hours); delete skips an id that is not in the set of all ids, and
\* the loop counts it all the same
RedisCleanupCompleted(repo, older_than_hours, clock) ==
    LET cutoff_time == clock - older_than_hours
        old_processes == {p \in DOMAIN repo.completed :
                            repo.completed[p] <= cutoff_time}
        present == old_processes \cap repo.all
    IN Reply([repo EXCEPT !.hashes = [p \in DOMAIN @ \ present |-> @[p]],
                          !.results = [p \in DOMAIN @ \ present |-> @[p]],
                          !.all = @ \ present,
                          !.completed = [p \in DOMAIN @ \ present |-> @[p]],
                          !.hash_ttl = @ \ present,
                          !.result_ttl = @ \ present],
             Cardinality(old_processes), None)

\* the number of the given processes that have the given status
CountStatus(processes, status) ==
    Cardinality({p \in processes : p.status = status})

\* InMemoryProcessRepository.get_stats: total, running, completed, failed
InMemoryGetStats(repo) ==
    LET processes == InMemoryListAll(repo)
    IN [total |-> Cardinality(processes),
        running |-> CountStatus(processes, "running"),
        completed |-> CountStatus(processes, "completed"),
        failed |-> CountStatus(processes, "failed")]

\* RedisProcessRepository.get_stats: the same counts and "pending" as well
RedisGetStats(repo) ==
    LET processes == RedisListAll(repo)
    IN [total |-> Cardinality(processes),
        pending |-> CountStatus(processes, "pending"),
        running |-> CountStatus(processes, "running"),
        completed |-> CountStatus(processes, "completed"),
        failed |-> CountStatus(processes, "failed")]

\* ------------------------------------------------------------------------
\* The Redis adapter while the backend fails: a command raises a RedisError
\* (a refused or timed-out connection), nothing of the batch is applied, and
\* the method's except branch returns
\* ------------------------------------------------------------------------
\* save: the metadata is built first (AttributeError without a query); then
\* pipe.execute() raises and the except branch prints and returns
RedisSaveFailing(repo, process) ==
    IF ~HasAttr(process, "query")
    THEN Reply(repo, None, Some(AttributeErrorText))
    ELSE Reply(repo, None, None)

\* get: HGETALL raises, or GET does after the metadata was read
RedisGetFailing(repo, process_id) == None

RedisExistsFailing(repo, process_id) == FALSE

\* delete: exists answers False for the error, or the batch raises
RedisDeleteFailing(repo, process_id) == Reply(repo, FALSE, None)

\* list_all: SMEMBERS raises (first), or it succeeds and the gets of the
\* ids in lost fail; get returns None for those and the loop skips them
RedisListAllFailing(repo, first, lost) ==
    IF first THEN {}
    ELSE {Val(RedisGet(repo, p)) :
             p \in {q \in repo.all \ lost : ~IsNone(RedisGet(repo, q))}}

\* cleanup_completed: ZRANGEBYSCORE raises (first), or it succeeds and the
\* deletes of the ids in lost fail; the loop counts every id all the same
RedisCleanupCompletedFailing(repo, older_than_hours, clock, first, lost) ==
    IF first THEN Reply(repo, 0, None)
    ELSE LET cutoff_time == clock - older_than_hours
             old_processes == {p \in DOMAIN repo.completed :
                                 repo.completed[p] <= cutoff_time}
             present == (old_processes \cap repo.all) \ lost
         IN Reply([repo EXCEPT !.hashes = [p \in DOMAIN @ \ present |-> @[p]],
                               !.results = [p \in DOMAIN @ \ present |-> @[p]],
                               !.all = @ \ present,
                               !.completed = [p \in DOMAIN @ \ present |-> @[p]],
                               !.hash_ttl = @ \ present,
                               !.result_ttl = @ \ present],
                  Cardinality(old_processes), None)

\* the retention period of a key has run out: Redis removes the key; the
\* set of all ids and the sorted set carry no expiry
RedisKeyExpires(repo, key, process_id) ==
    IF key = "hash"
    THEN [repo EXCEPT !.hashes = Del(@, process_id), !.hash_ttl = @ \ {process_id}]
    ELSE [repo EXCEPT !.results = Del(@, process_id), !.result_ttl = @ \ {process_id}]

\* IProcessRepository: the call goes to the implementation in use
Save(repo, process) ==
    IF repo.kind = "memory" THEN InMemorySave(repo, process)
    ELSE RedisSave(repo, process)

Get(repo, process_id) ==
    IF repo.kind = "memory" THEN InMemoryGet(repo, process_id)
    ELSE RedisGet(repo, process_id)

Exists(repo, process_id) ==
    IF repo.kind = "memory" THEN InMemoryExists(repo, process_id)
    ELSE RedisExists(repo, process_id)

Delete(repo, process_id) ==
    IF repo.kind = "memory" THEN InMemoryDelete(repo, process_id)
    ELSE RedisDelete(repo, process_id)

ListAll(repo) ==
    IF repo.kind = "memory" THEN InMemoryListAll(repo) ELSE RedisListAll(repo)

CleanupCompletedIn(repo, older_than_hours, clock) ==
    IF repo.kind = "memory" THEN InMemoryCleanupCompleted(repo, older_than_hours)
    ELSE RedisCleanupCompleted(repo, older_than_hours, clock)

\* ProcessManager.get_stats: the five counts, from list_all of the repository
\* it was given
ManagerGetStats(repo) ==
    LET all_processes == ListAll(repo)
    IN [total |-> Cardinality(all_processes),
        pending |-> CountStatus(all_processes, "pending"),
        running |-> CountStatus(all_processes, "running"),
        completed |-> CountStatus(all_processes, "completed"),
        failed |-> CountStatus(all_processes, "failed")]

\* ------------------------------------------------------------------------
\* ProcessManager (backend/app/services/process_manager.py)
\* ------------------------------------------------------------------------
VARIABLES
    repository,     \* ProcessManager._repository and what it stores
    issued,         \* the process ids uuid4 has produced so far
    requested,      \* id -> the query of the create_process call that returned it
    now,            \* the wall clock, in hours
    tasks,          \* the execute_process calls: one slot per scheduled call
    everTerminal,   \* history: ids whose stored status has been completed/failed
    written,        \* history: ids on which an execute_process call has saved
    deleted,        \* history: ids removed by a cleanup
    networked,      \* a RedisProcessRepository driven beside the in-memory one
    replies,        \* what the last repository call returned, per implementation
    invocations     \* history of a graph run: node calls and verdicts per stage

vars == << repository, issued, requested, now, tasks, everTerminal, written, deleted,
           networked, replies, invocations >>

Ids == 1 .. MaxIds
\* an id no create_process call ever returns
NoSuchId == 0
Tasks == 1 .. MaxTasks

\* a variant of the id generator that can hand out an id again
uuid4_Reused == CHOOSE p \in Ids : TRUE

\* f"process_{uuid4().hex[:12]}": an id that was not produced before
uuid4 == CHOOSE p \in Ids \ issued : \A q \in Ids \ issued : p <= q

\* an execute_process call: where it is, its arguments, the graph run of its
\* run_decision call, and whether the record was pending when it was called
Task(pc, process_id, decision_query, graph, pendingAtCall) ==
    [pc |-> pc, process_id |-> process_id, decision_query |-> decision_query,
     graph |-> graph, pendingAtCall |-> pendingAtCall]

IdleTask == Task("idle", NoSuchId, None, None, FALSE)

\* a call that has returned
Returned(task) == Task("done", task.process_id, None, None, FALSE)

TerminalIds(repo) ==
    {p \in Ids : ~IsNone(Get(repo, p))
                 /\ Val(Get(repo, p)).status \in {"completed", "failed"}}

\* the stage nodes, in the order of the workflow
Stages ==
    << "IdentifyTrigger", "AnalyzeRootCause", "ScopeDefinition", "Drafting",
       "EstablishGoals", "IdentifyInformationNeeded", "UpdateDraft",
       "GenerationOfAlternatives", "Result" >>

StageNames == {Stages[i] : i \in DOMAIN Stages}

\* nothing has run yet: no stage called, no verdict given, no answer produced
NoInvocations ==
    [calls |-> [s \in StageNames |-> 0],
     rejections |-> [s \in StageNames |-> 0],
     approved |-> [s \in StageNames |-> FALSE],
     answer |-> [s \in StageNames |-> None]]

\* no repository call has been made yet
NoReplies ==
    [call |-> [op |-> "none", arg |-> 0, at |-> 0, backend |-> "up"],
     memory |-> [value |-> None, raised |-> None],
     redis |-> [value |-> None, raised |-> None],
     removed |-> {}]

Init ==
    /\ repository \in {EmptyRepository("memory"), EmptyRepository("redis")}
    /\ issued = {}
    /\ requested = << >>
    /\ now = 0
    /\ tasks = [t \in Tasks |-> IdleTask]
    /\ everTerminal = {}
    /\ written = {}
    /\ deleted = {}
    /\ networked = EmptyRepository("redis")
    /\ replies = NoReplies
    /\ invocations = NoInvocations

\* a variant of the except branch that drops the exception without writing
\* the record
OnException_Swallow(repo, process_id, message, clock) ==
    Reply(repo, "vanished", None)

\* the except branch of execute_process: fetch the record and, if it is
\* there, mark it failed with the message and save it
OnException(repo, process_id, message, clock) ==
    LET process_info == Get(repo, process_id)
    IN IF IsNone(process_info)
       THEN Reply(repo, "vanished", None)
       ELSE LET r == Save(repo, [Val(process_info) EXCEPT
                                   !.status = "failed",
                                   !.error = Some(message),
                                   !.completed_at = Some(clock)])
            IN IF IsNone(r.raised) THEN Reply(r.repo, "failed", None)
               ELSE Reply(r.repo, "raised", r.raised)

\* a variant of the try branch that writes the result even when the record
\* is gone, under a record made anew
OnSuccess_Recreate(repo, process_id, state, clock) ==
    LET process_info == Get(repo, process_id)
        found == IF IsNone(process_info)
                 THEN ProcessInfo(process_id, "", "pending", None, None, None, None)
                 ELSE Val(process_info)
        r == Save(repo, [found EXCEPT !.status = "completed",
                                      !.result = Some(state),
                                      !.completed_at = Some(clock)])
    IN IF IsNone(r.raised) THEN Reply(r.repo, "completed", None)
       ELSE OnException(r.repo, process_id, Val(r.raised), clock)

\* a variant of the try branch that completes every stored record with the
\* state of this run
OnSuccess_CompletesAll(repo, process_id, state, clock) ==
    LET done(process) == [process EXCEPT !.status = "completed",
                                         !.result = Some(state),
                                         !.completed_at = Some(clock)]
    IN Reply([repo EXCEPT !.storage = [p \in DOMAIN @ |-> done(@[p])]],
             "completed", None)

\* the rest of the try branch once run_decision has returned the state; an
\* exception of save is caught by the except branch like any other
OnSuccess(repo, process_id, state, clock) ==
    LET process_info == Get(repo, process_id)
    IN IF IsNone(process_info)
       THEN Reply(repo, "vanished", None)
       ELSE LET r == Save(repo, [Val(process_info) EXCEPT
                                   !.status = "completed",
                                   !.result = Some(state),
                                   !.completed_at = Some(clock)])
            IN IF IsNone(r.raised) THEN Reply(r.repo, "completed", None)
               ELSE OnException(r.repo, process_id, Val(r.raised), clock)

\* what every step of the manager and of a plain graph run adds to the
\* histories; it leaves the side-by-side repository and the counts alone
Record(repo, savedIds, removedIds) ==
    /\ everTerminal' = everTerminal \cup TerminalIds(repo)
    /\ written' = written \cup savedIds
    /\ deleted' = deleted \cup removedIds
    /\ UNCHANGED << networked, replies, invocations >>

\* ProcessManager.create_process
create_process(decision_query) ==
    /\ Ids \ issued # {}
    /\ LET process_id == uuid4
           process_info == ProcessInfo(process_id, decision_query, "pending",
                                       None, None, Some(now), None)
           r == Save(repository, process_info)
       IN /\ repository' = r.repo
          /\ issued' = issued \cup {process_id}
          /\ requested' = IF IsNone(r.raised)
                          THEN Put(requested, process_id, decision_query)
                          ELSE requested
          /\ Record(r.repo, {}, {})
    /\ UNCHANGED << now, tasks >>

\* a variant of execute_process that marks the stored record as running
\* before it starts the graph
execute_process_MarksRunning(t, process_id, decision_query) ==
    /\ tasks[t].pc \in {"idle", "done"}
    /\ ~IsNone(decision_query)
    /\ LET stored == Get(repository, process_id)
           pending == ~IsNone(stored) /\ Val(stored).status = "pending"
           call == Task("running", process_id, decision_query,
                        Some(run_decision(Val(decision_query))), pending)
           r == IF IsNone(stored)
                THEN Reply(repository, None, None)
                ELSE Save(repository, [Val(stored) EXCEPT !.status = "running"])
       IN /\ tasks' = [tasks EXCEPT ![t] = call]
          /\ repository' = r.repo
          /\ Record(r.repo, {}, {})
    /\ UNCHANGED << issued, requested, now >>

\* ProcessManager.execute_process, from the call to its first suspension:
\* without a query it reads the stored record's query, which the record does
\* not have, and the AttributeError lands in the except branch; with a query
\* it starts the graph
execute_process(t, process_id, decision_query) ==
    /\ tasks[t].pc \in {"idle", "done"}
    /\ LET stored == Get(repository, process_id)
           pending == ~IsNone(stored) /\ Val(stored).status = "pending"
           call == Task("running", process_id, decision_query, None, pending)
           start(query) == [call EXCEPT !.decision_query = Some(query),
                                        !.graph = Some(run_decision(query))]
       IN IF ~IsNone(decision_query)
          THEN /\ tasks' = [tasks EXCEPT ![t] = start(Val(decision_query))]
               /\ repository' = repository
               /\ Record(repository, {}, {})
          ELSE IF IsNone(stored)
          THEN /\ tasks' = [tasks EXCEPT ![t] = Returned(call)]
               /\ repository' = repository
               /\ Record(repository, {}, {})
          ELSE IF HasAttr(Val(stored), "query")
          THEN /\ tasks' = [tasks EXCEPT ![t] = start(Val(stored).query)]
               /\ repository' = repository
               /\ Record(repository, {}, {})
          ELSE LET r == OnException(repository, process_id, AttributeErrorText, now)
               IN /\ tasks' = [tasks EXCEPT ![t] = Returned(call)]
                  /\ repository' = r.repo
                  /\ Record(r.repo, IF r.value = "failed" THEN {process_id} ELSE {}, {})
    /\ UNCHANGED << issued, requested, now >>

\* the nodes that call the Reasoning Service
CallsService(g) == g.node.name \notin {"GetDecision", "End"}

\* the graph runs decision_graph.run can pass through from the runs given,
\* whatever the Reasoning Service answers
RECURSIVE Closure(_, _, _, _, _)
Closure(seen, frontier, answers, results, verdicts) ==
    IF frontier = {} THEN seen
    ELSE LET next == UNION {NodeRun(g, answers, results, verdicts) : g \in frontier}
                     \ seen
         IN Closure(seen \cup next, next, answers, results, verdicts)

\* per query, the graph runs of a process of the manager
ProcessRuns ==
    [q \in Queries |-> Closure({run_decision(q)}, {run_decision(q)},
                               ProcessAnswers, ProcessResults, ProcessEvaluations)]

\* per query, the runs that have reached End
CompletedRuns == [q \in Queries |-> {g \in ProcessRuns[q] : g.node = End}]

\* the graph runs the run_decision call of a task can be in
RunsOf(task) ==
    IF task.pc = "running" THEN ProcessRuns[Val(task.decision_query)] ELSE {}

\* the ends its run_decision call can come to
EndsOf(task) ==
    IF task.pc = "running" THEN CompletedRuns[Val(task.decision_query)] ELSE {}

\* a node of its run_decision call at which the service can raise
FailingRun(task) == CHOOSE g \in RunsOf(task) : g.node.name # "GetDecision" /\ g.node # End

\* decision_graph.run, one node: the node of task t runs and returns the
\* next node
run_node(t, answers) ==
    /\ tasks[t].pc = "running"
    /\ \E g \in NodeRun(Val(tasks[t].graph), answers, ResultOutputs, EvaluationOutput) :
          tasks' = [tasks EXCEPT ![t].graph = Some(g)]
    /\ repository' = repository
    /\ Record(repository, {}, {})
    /\ UNCHANGED << issued, requested, now >>

\* the Reasoning Service raises inside the node of graph run g of task t:
\* the exception leaves the graph and run_decision, and execute_process
\* catches it
service_error(t, g, message) ==
    /\ tasks[t].pc = "running"
    /\ CallsService(g)
    /\ LET r == OnException(repository, tasks[t].process_id, message, now)
       IN /\ tasks' = [tasks EXCEPT ![t] = Returned(tasks[t])]
          /\ repository' = r.repo
          /\ Record(r.repo,
                    IF r.value = "failed" THEN {tasks[t].process_id} ELSE {}, {})
    /\ UNCHANGED << issued, requested, now >>

\* the graph run g of task t has reached End: run_decision returns the state
\* and execute_process stores it
run_returns(t, g) ==
    /\ tasks[t].pc = "running"
    /\ g.node = End
    /\ LET r == OnSuccess(repository, tasks[t].process_id, g.state, now)
       IN /\ tasks' = [tasks EXCEPT ![t] = Returned(tasks[t])]
          /\ repository' = r.repo
          /\ Record(r.repo,
                    IF r.value \in {"completed", "failed"}
                    THEN {tasks[t].process_id} ELSE {}, {})
    /\ UNCHANGED << issued, requested, now >>

\* ProcessManager.cleanup_completed
cleanup_completed(older_than_hours) ==
    /\ LET r == CleanupCompletedIn(repository, older_than_hours, now)
       IN /\ repository' = r.repo
          /\ Record(r.repo, {}, {p \in Ids : Exists(repository, p) /\ ~Exists(r.repo, p)})
    /\ UNCHANGED << issued, requested, now, tasks >>

\* delete every listed process, one after the other
RECURSIVE DeleteEach(_, _)
DeleteEach(repo, ids) ==
    IF ids = {} THEN repo
    ELSE LET p == CHOOSE x \in ids : TRUE
         IN DeleteEach(Delete(repo, p).repo, ids \ {p})

\* ProcessManager.cleanup_all
cleanup_all ==
    /\ LET all_processes == ListAll(repository)
           repo == DeleteEach(repository, {p.process_id : p \in all_processes})
       IN /\ repository' = repo
          /\ Record(repo, {}, {p \in Ids : Exists(repository, p) /\ ~Exists(repo, p)})
    /\ UNCHANGED << issued, requested, now, tasks >>

OptionalQueries == {None} \cup {Some(q) : q \in Queries}
\* the values callers pass as older_than_hours
Hours == {0, 24}

\* The processes of the manager.  A graph run shares nothing with the other
\* tasks, so a task in run_decision takes one step to its end: to End along
\* any of the runs of its query, or to the node where the service raises.
Next ==
    \/ \E q \in Queries : create_process(q)
    \/ \E t \in Tasks, p \in issued \cup {NoSuchId}, q \in OptionalQueries :
          execute_process(t, p, q)
    \/ \E t \in Tasks : \E g \in EndsOf(tasks[t]) : run_returns(t, g)
    \/ \E t \in Tasks, m \in ErrorMessages :
          tasks[t].pc = "running" /\ service_error(t, FailingRun(tasks[t]), m)
    \/ \E h \in Hours : cleanup_completed(h)
    \/ cleanup_all

Spec == Init /\ [][Next]_vars

\* ------------------------------------------------------------------------
\* The workflow alone: one run_decision call outside any process, node by
\* node, for every query (the empty one included) and every output of the
\* Reasoning Service
\* ------------------------------------------------------------------------
InitGraph ==
    /\ repository = EmptyRepository("memory")
    /\ issued = {}
    /\ requested = << >>
    /\ now = 0
    /\ \E q \in Queries \cup {""} :
          tasks = [t \in Tasks |->
                     IF t = 1
                     THEN Task("running", NoSuchId, Some(q),
                               Some(run_decision(q)), FALSE)
                     ELSE IdleTask]
    /\ everTerminal = {}
    /\ written = {}
    /\ deleted = {}
    /\ networked = EmptyRepository("redis")
    /\ replies = NoReplies
    /\ invocations = NoInvocations

NextGraph ==
    \/ run_node(1, Answers)
    \/ \E m \in ErrorMessages : service_error(1, Val(tasks[1].graph), m)
    \/ run_returns(1, Val(tasks[1].graph))

GraphSpec == InitGraph /\ [][NextGraph]_vars

\* ------------------------------------------------------------------------
\* The workflow with its calls counted: one run_decision call, node by node,
\* in which the evaluators reject at most MaxRejections times in all
\* ------------------------------------------------------------------------
\* the evaluator nodes, each at the index of its stage in Stages
Evaluators ==
    << "Evaluate_IdentifyTrigger", "Evaluate_AnalyzeRootCause",
       "Evaluate_ScopeDefinition", "Evaluate_Drafting", "Evaluate_EstablishGoals",
       "Evaluate_IdentifyInformationNeeded", "Evaluate_UpdateDraft",
       "Evaluate_GenerationOfAlternatives", "Evaluate_Result" >>

EvaluatorNames == {Evaluators[i] : i \in DOMAIN Evaluators}

\* the stage an evaluator node judges
StageOf(evaluator) ==
    Stages[CHOOSE i \in DOMAIN Evaluators : Evaluators[i] = evaluator]

\* the DecisionState field the evaluator of a plain stage commits
FieldOf ==
    [IdentifyTrigger |-> "trigger", AnalyzeRootCause |-> "root_cause",
     ScopeDefinition |-> "scope_definition", Drafting |-> "decision_drafted",
     EstablishGoals |-> "goals", UpdateDraft |-> "decision_draft_updated",
     GenerationOfAlternatives |-> "alternatives"]

RECURSIVE RejectionsUpTo(_, _)
RejectionsUpTo(inv, i) ==
    IF i = 0 THEN 0 ELSE inv.rejections[Stages[i]] + RejectionsUpTo(inv, i - 1)

\* the rejections of a run so far, over all its evaluators
TotalRejections(inv) == RejectionsUpTo(inv, Len(Stages))

\* the history after node g.node has run with the verdict given (read by the
\* evaluator nodes only) and has returned the node of g2: a stage node was
\* called once more and produced the answer its evaluator node carries; an
\* evaluator node approved or rejected
Counted(inv, g, verdict, g2) ==
    LET n == g.node.name
    IN IF n \in StageNames
       THEN [inv EXCEPT !.calls[n] = @ + 1, !.answer[n] = g2.node.answer]
       ELSE IF n \in EvaluatorNames
       THEN IF verdict.correct
            THEN [inv EXCEPT !.approved[StageOf(n)] = TRUE]
            ELSE [inv EXCEPT !.rejections[StageOf(n)] = @ + 1]
       ELSE inv

\* the verdicts the evaluators may still give
VerdictsLeft(inv) ==
    IF TotalRejections(inv) < MaxRejections
    THEN EvaluationOutput
    ELSE [correct : {TRUE}, comment : Comments]

\* decision_graph.run, one node, with the call and the verdict counted
run_node_counted(t) ==
    /\ tasks[t].pc = "running"
    /\ LET g == Val(tasks[t].graph)
       IN \E a \in Answers, r \in ResultOutputs, v \in VerdictsLeft(invocations) :
             \E g2 \in NodeRun(g, {a}, {r}, {v}) :
                /\ tasks' = [tasks EXCEPT ![t].graph = Some(g2)]
                /\ invocations' = Counted(invocations, g, v, g2)
    /\ UNCHANGED << repository, issued, requested, now, everTerminal, written,
                    deleted, networked, replies >>

NextRetry == run_node_counted(1)

RetrySpec == InitGraph /\ [][NextRetry]_vars

\* ------------------------------------------------------------------------
\* The workflow under fair verdicts: one run_decision call in which no call
\* of the Reasoning Service fails.  decision_graph.run awaits each node in
\* turn, so a run that can take a step takes one; and an evaluator other
\* than that of IdentifyInformationNeeded that is asked again and again
\* approves in the end.
\* ------------------------------------------------------------------------
\* the evaluator node named runs and its agent answers "correct"
approves(evaluator) ==
    /\ tasks[1].pc = "running"
    /\ Val(tasks[1].graph).node.name = evaluator
    /\ \E g \in NodeRun(Val(tasks[1].graph), Answers, ResultOutputs,
                        [correct : {TRUE}, comment : Comments]) :
          tasks' = [tasks EXCEPT ![1].graph = Some(g)]
    /\ repository' = repository
    /\ Record(repository, {}, {})
    /\ UNCHANGED << issued, requested, now >>

\* the evaluators whose stage is repeated until they approve
UnboundedEvaluators == EvaluatorNames \ {"Evaluate_IdentifyInformationNeeded"}

NextLive ==
    \/ run_node(1, Answers)
    \/ \E evaluator \in UnboundedEvaluators : approves(evaluator)
    \/ run_returns(1, Val(tasks[1].graph))

LiveSpec ==
    /\ InitGraph
    /\ [][NextLive]_vars
    /\ WF_vars(run_node(1, Answers))
    /\ WF_vars(run_returns(1, Val(tasks[1].graph)))
    /\ \A evaluator \in UnboundedEvaluators : SF_vars(approves(evaluator))

\* ------------------------------------------------------------------------
\* The repositories alone: the same calls made on an InMemoryProcessRepository
\* (repository) and on a RedisProcessRepository (networked), both empty at
\* first, while the clock advances
\* ------------------------------------------------------------------------
Statuses == {"pending", "running", "completed", "failed"}

\* the records a caller may pass to save at the given hour: pending or
\* running ones, and completed or failed ones with or without a result and
\* with or without the hour as completed_at
Records(clock) ==
    {ProcessInfo(p, "q1", status, None, None, Some(0), None) :
        p \in Ids, status \in {"pending", "running"}}
    \cup
    {ProcessInfo(p, "q1", status, result,
                 IF status = "failed" THEN Some("provider error") ELSE None,
                 Some(0), completed_at) :
        p \in Ids, status \in {"completed", "failed"},
        result \in {None, Some(DecisionState("q1"))},
        completed_at \in {None, Some(clock)}}

\* what a call gave back: its return value, or the exception it raised
Outcome(reply) == [value |-> reply.value, raised |-> reply.raised]
Returns(value) == [value |-> value, raised |-> None]

\* the call made, the hour it was made at and the condition of the backend
\* (up, unless said otherwise), what each implementation gave back, and the
\* records the call took out of the in-memory repository
Replies(op, arg, memory, redis, before, after) ==
    [call |-> [op |-> op, arg |-> arg, at |-> now, backend |-> "up"],
     memory |-> memory, redis |-> redis,
     removed |-> InMemoryListAll(before) \ InMemoryListAll(after)]

RepositoryUnchanged ==
    UNCHANGED << issued, requested, tasks, everTerminal, written, deleted,
                 invocations >>

repo_save(process) ==
    /\ LET m == InMemorySave(repository, process)
           n == RedisSave(networked, process)
       IN /\ repository' = m.repo
          /\ networked' = n.repo
          /\ replies' = Replies("save", process.process_id, Outcome(m), Outcome(n),
                                repository, m.repo)
    /\ UNCHANGED now
    /\ RepositoryUnchanged

repo_get(process_id) ==
    /\ replies' = Replies("get", process_id,
                          Returns(InMemoryGet(repository, process_id)),
                          Returns(RedisGet(networked, process_id)),
                          repository, repository)
    /\ UNCHANGED << repository, networked, now >>
    /\ RepositoryUnchanged

repo_exists(process_id) ==
    /\ replies' = Replies("exists", process_id,
                          Returns(InMemoryExists(repository, process_id)),
                          Returns(RedisExists(networked, process_id)),
                          repository, repository)
    /\ UNCHANGED << repository, networked, now >>
    /\ RepositoryUnchanged

repo_delete(process_id) ==
    /\ LET m == InMemoryDelete(repository, process_id)
           n == RedisDelete(networked, process_id)
       IN /\ repository' = m.repo
          /\ networked' = n.repo
          /\ replies' = Replies("delete", process_id, Outcome(m), Outcome(n),
                                repository, m.repo)
    /\ UNCHANGED now
    /\ RepositoryUnchanged

repo_list_all ==
    /\ replies' = Replies("list_all", 0,
                          Returns(InMemoryListAll(repository)),
                          Returns(RedisListAll(networked)),
                          repository, repository)
    /\ UNCHANGED << repository, networked, now >>
    /\ RepositoryUnchanged

repo_get_stats ==
    /\ replies' = Replies("get_stats", 0,
                          Returns(InMemoryGetStats(repository)),
                          Returns(RedisGetStats(networked)),
                          repository, repository)
    /\ UNCHANGED << repository, networked, now >>
    /\ RepositoryUnchanged

repo_cleanup_completed(older_than_hours) ==
    /\ LET m == InMemoryCleanupCompleted(repository, older_than_hours)
           n == RedisCleanupCompleted(networked, older_than_hours, now)
       IN /\ repository' = m.repo
          /\ networked' = n.repo
          /\ replies' = Replies("cleanup_completed", older_than_hours,
                                Outcome(m), Outcome(n), repository, m.repo)
    /\ UNCHANGED now
    /\ RepositoryUnchanged

\* an hour passes
Tick ==
    /\ now < MaxTime
    /\ now' = now + 1
    /\ UNCHANGED << repository, networked, replies >>
    /\ RepositoryUnchanged

InitRepositories ==
    /\ repository = EmptyRepository("memory")
    /\ networked = EmptyRepository("redis")
    /\ replies = NoReplies
    /\ now = 0
    /\ issued = {}
    /\ requested = << >>
    /\ tasks = [t \in Tasks |-> IdleTask]
    /\ everTerminal = {}
    /\ written = {}
    /\ deleted = {}
    /\ invocations = NoInvocations

NextRepositories ==
    \/ \E process \in Records(now) : repo_save(process)
    \/ \E p \in Ids : repo_get(p)
    \/ \E p \in Ids : repo_exists(p)
    \/ \E p \in Ids : repo_delete(p)
    \/ repo_list_all
    \/ repo_get_stats
    \/ \E h \in Hours : repo_cleanup_completed(h)
    \/ Tick

RepoSpec == InitRepositories /\ [][NextRepositories]_vars

\* ------------------------------------------------------------------------
\* The Redis adapter with records it accepts: the calls of RepoSpec made with
\* records that carry the query attribute save reads, the expiry of keys,
\* a get of one client around the write of another, and calls made while the
\* backend fails.  The clock stands still: the retention period of a key runs
\* out in key_expires.
\* ------------------------------------------------------------------------
\* the process with the attribute query added
WithQuery(process, query) ==
    [a \in DOMAIN process \cup {"query"} |->
        IF a = "query" THEN query ELSE process[a]]

\* the records saved: under the first id a pending record, the completed
\* records and a failed record with its completion time; under each of the
\* other ids a pending record
AdapterRecords(clock) ==
    {WithQuery(process, "q1") :
        process \in {r \in Records(clock) :
                        \/ r.status = "pending"
                        \/ r.process_id = 1 /\ r.status = "completed"
                        \/ r.process_id = 1 /\ r.status = "failed"
                              /\ IsNone(r.result) /\ ~IsNone(r.completed_at)}}

\* the records save is called with while the backend fails
FailingRecords(clock) ==
    {r \in Records(clock) \cup AdapterRecords(clock) : r.status = "pending"}

\* the backend commands that fail during a call: the first one, or those
\* made for the ids of lost
Failures == {<< TRUE, {} >>} \cup {<< FALSE, lost >> : lost \in SUBSET Ids}

\* the outcome of a call of the adapter alone, the backend being up or down
AdapterReplies(op, arg, backend, redis) ==
    [Replies(op, arg, NoReplies.memory, redis, repository, repository)
        EXCEPT !.call.backend = backend]

key_expires(key, process_id) ==
    /\ process_id \in (IF key = "hash" THEN networked.hash_ttl
                                        ELSE networked.result_ttl)
    /\ networked' = RedisKeyExpires(networked, key, process_id)
    /\ UNCHANGED << repository, replies, now >>
    /\ RepositoryUnchanged

\* get(process.process_id) of one client and save(process) of another:
\* HGETALL, the whole batch of save, GET
get_during_save(process) ==
    /\ LET n == RedisSave(networked, process)
           process_id == process.process_id
       IN /\ networked' = n.repo
          /\ replies' = AdapterReplies("get_during_save", process_id, "up",
                             Returns(RedisGetAcross(networked, n.repo, process_id)))
    /\ UNCHANGED << repository, now >>
    /\ RepositoryUnchanged

\* get(process_id) of one client and delete(process_id) of another
get_during_delete(process_id) ==
    /\ LET n == RedisDelete(networked, process_id)
       IN /\ networked' = n.repo
          /\ replies' = AdapterReplies("get_during_delete", process_id, "up",
                             Returns(RedisGetAcross(networked, n.repo, process_id)))
    /\ UNCHANGED << repository, now >>
    /\ RepositoryUnchanged

\* cleanup_completed(older_than_hours) of two clients at once: both read
\* the sorted set (ZRANGEBYSCORE) before either deletes, then each deletes
\* every id it has read and counts it; the deletes of the second find the
\* ids gone and change nothing.  The value recorded is the sum of the two
\* counts returned.
cleanup_during_cleanup(older_than_hours) ==
    /\ LET first == RedisCleanupCompleted(networked, older_than_hours, now)
           second == RedisCleanupCompleted(networked, older_than_hours, now)
       IN /\ networked' = first.repo
          /\ replies' = AdapterReplies("cleanup_during_cleanup", older_than_hours,
                                       "up", Returns(first.value + second.value))
    /\ UNCHANGED << repository, now >>
    /\ RepositoryUnchanged

save_failing(process) ==
    /\ LET n == RedisSaveFailing(networked, process)
       IN /\ networked' = n.repo
          /\ replies' = AdapterReplies("save", process.process_id, "down", Outcome(n))
    /\ UNCHANGED << repository, now >>
    /\ RepositoryUnchanged

get_failing(process_id) ==
    /\ replies' = AdapterReplies("get", process_id, "down",
                                 Returns(RedisGetFailing(networked, process_id)))
    /\ UNCHANGED << repository, networked, now >>
    /\ RepositoryUnchanged

exists_failing(process_id) ==
    /\ replies' = AdapterReplies("exists", process_id, "down",
                                 Returns(RedisExistsFailing(networked, process_id)))
    /\ UNCHANGED << repository, networked, now >>
    /\ RepositoryUnchanged

delete_failing(process_id) ==
    /\ LET n == RedisDeleteFailing(networked, process_id)
       IN /\ networked' = n.repo
          /\ replies' = AdapterReplies("delete", process_id, "down", Outcome(n))
    /\ UNCHANGED << repository, now >>
    /\ RepositoryUnchanged

\* a backend command of the call fails: the first one, or one of those made
\* for an id of lost
Fails(first, lost, ids) == first \/ lost \cap ids # {}

list_all_failing(first, lost) ==
    /\ Fails(first, lost, networked.all)
    /\ replies' = AdapterReplies("list_all", 0, "down",
                       Returns(RedisListAllFailing(networked, first, lost)))
    /\ UNCHANGED << repository, networked, now >>
    /\ RepositoryUnchanged

cleanup_completed_failing(older_than_hours, first, lost) ==
    /\ Fails(first, lost, {p \in DOMAIN networked.completed :
                              networked.completed[p] <= now - older_than_hours})
    /\ LET n == RedisCleanupCompletedFailing(networked, older_than_hours, now,
                                             first, lost)
       IN /\ networked' = n.repo
          /\ replies' = AdapterReplies("cleanup_completed", older_than_hours,
                                       "down", Outcome(n))
    /\ UNCHANGED << repository, now >>
    /\ RepositoryUnchanged

NextAdapter ==
    \/ \E process \in AdapterRecords(now) : repo_save(process)
    \/ \E p \in Ids : repo_get(p)
    \/ \E p \in Ids : repo_exists(p)
    \/ \E p \in Ids : repo_delete(p)
    \/ repo_list_all
    \/ \E h \in Hours : repo_cleanup_completed(h)
    \/ \E key \in {"hash", "result"}, p \in Ids : key_expires(key, p)
    \/ \E process \in AdapterRecords(now) : get_during_save(process)
    \/ \E p \in Ids : get_during_delete(p)
    \/ \E h \in Hours : cleanup_during_cleanup(h)
    \/ \E process \in FailingRecords(now) : save_failing(process)
    \/ \E p \in Ids : get_failing(p)
    \/ \E p \in Ids : exists_failing(p)
    \/ \E p \in Ids : delete_failing(p)
    \/ \E f \in Failures : list_all_failing(f[1], f[2])
    \/ \E h \in Hours, f \in Failures : cleanup_completed_failing(h, f[1], f[2])

AdapterSpec == InitRepositories /\ [][NextAdapter]_vars

\* ------------------------------------------------------------------------
\* Properties
\* ------------------------------------------------------------------------
Stored(p) == ~IsNone(Get(repository, p))
Rec(p) == Val(Get(repository, p))
StoredAfter(p) == ~IsNone(Get(repository', p))
RecAfter(p) == Val(Get(repository', p))
Terminal(status) == status \in {"completed", "failed"}
Running(t) == tasks[t].pc = "running"
GraphOf(t) == Val(tasks[t].graph)

\* C1: every stored record has a result exactly when its status is
\* completed, and an error exactly when its status is failed.
C1_ResultAndErrorFollowStatus ==
    \A p \in Ids :
        Stored(p) =>
            /\ (~IsNone(Rec(p).result)) <=> (Rec(p).status = "completed")
            /\ (~IsNone(Rec(p).error)) <=> (Rec(p).status = "failed")

\* C2: a process whose status has once been completed or failed is never
\* pending or running afterwards (it is completed, failed or gone).
C2_StatusForwardOnly ==
    \A p \in everTerminal : Stored(p) => Rec(p).status \notin {"pending", "running"}

\* a record that was failed and has then been completed by another call
C2_Witness ==
    \E p \in everTerminal :
        Stored(p) /\ Rec(p).status = "completed" /\ ~IsNone(Rec(p).error)

\* C3: a record whose status is completed or failed is not changed by any
\* step that leaves it stored.
C3_TerminalRecordImmutable ==
    [][\A p \in Ids :
          (Stored(p) /\ Terminal(Rec(p).status) /\ StoredAfter(p))
              => RecAfter(p) = Rec(p)]_vars

\* C4: when the Reasoning Service raises during an execute_process call on a
\* stored record, the record is left failed, with the raised message as
\* error, no result, and completed_at set.
C4_ServiceErrorFailsRecord ==
    [][\A t \in Tasks, m \in ErrorMessages :
          (/\ Running(t)
           /\ Stored(tasks[t].process_id)
           /\ service_error(t, FailingRun(tasks[t]), m))
              => /\ StoredAfter(tasks[t].process_id)
                 /\ RecAfter(tasks[t].process_id).status = "failed"
                 /\ RecAfter(tasks[t].process_id).error = Some(m)
                 /\ IsNone(RecAfter(tasks[t].process_id).result)
                 /\ ~IsNone(RecAfter(tasks[t].process_id).completed_at)]_vars

\* C5: when the graph run of an execute_process call made on a pending
\* record reaches End, the record is left completed, with completed_at set,
\* no error, and the final DecisionState as result, whose result fields are
\* those of the approved answer of the result agent.
C5_CompletionStoresFinalState ==
    [][\A t \in Tasks :
          \A g \in EndsOf(tasks[t]) :
              (/\ tasks[t].pendingAtCall
               /\ Stored(tasks[t].process_id)
               /\ run_returns(t, g))
                  => /\ StoredAfter(tasks[t].process_id)
                     /\ RecAfter(tasks[t].process_id).status = "completed"
                     /\ ~IsNone(RecAfter(tasks[t].process_id).completed_at)
                     /\ IsNone(RecAfter(tasks[t].process_id).error)
                     /\ RecAfter(tasks[t].process_id).result = Some(g.state)
                     /\ \E a \in ProcessResults :
                           /\ g.state.result = a.result
                           /\ g.state.best_alternative_result = a.best_alternative_result]_vars

\* C6: a process that create_process has returned, and that no
\* execute_process call has written and no cleanup has removed, exists and
\* is pending with no result, no error, no completed_at, and the query it
\* was created with.
C6_CreatedRecordIsPendingWithQuery ==
    \A p \in DOMAIN requested :
        (p \notin written /\ p \notin deleted) =>
            /\ Exists(repository, p)
            /\ Stored(p)
            /\ Rec(p).status = "pending"
            /\ IsNone(Rec(p).result)
            /\ IsNone(Rec(p).error)
            /\ IsNone(Rec(p).completed_at)
            /\ HasAttr(Rec(p), "query")
            /\ Rec(p).query = requested[p]

\* C7: once an execute_process call has returned, the record it was called
\* for, if it is stored, is completed or failed.
C7_ReturnedProcessIsTerminal ==
    \A t \in Tasks :
        (tasks[t].pc = "done" /\ Stored(tasks[t].process_id))
            => Terminal(Rec(tasks[t].process_id).status)

\* a call that has returned and whose record is stored as completed
C7_Witness ==
    \E t \in Tasks :
        /\ tasks[t].pc = "done"
        /\ Stored(tasks[t].process_id)
        /\ Rec(tasks[t].process_id).status = "completed"

\* the node of the run lies after stage 7
PastStage7(g) ==
    g.node.name \in {"UpdateDraft", "Evaluate_UpdateDraft", "GenerationOfAlternatives",
                     "Evaluate_GenerationOfAlternatives", "Result", "Evaluate_Result",
                     "End"}

\* C8: as long as the stage-7 evaluator has never approved, at most 3
\* retrievals have been made; the evaluator node entered with the counter at
\* 3 hands over to UpdateDraft; and a run that has left stage 7 without an
\* approval has made exactly 3 retrievals and has the counter at 3.
C8_ForcedAdvanceAfterThree ==
    /\ [](Running(1) /\ ~GraphOf(1).approved7 =>
            /\ GraphOf(1).retrievals <= 3
            /\ PastStage7(GraphOf(1)) =>
                  /\ GraphOf(1).retrievals = 3
                  /\ GraphOf(1).state.complementary_info_num = 3)
    /\ [][(/\ Running(1)
           /\ GraphOf(1).node.name = "Evaluate_IdentifyInformationNeeded"
           /\ GraphOf(1).state.complementary_info_num = 3
           /\ run_node(1, Answers))
              => GraphOf(1)'.node = StageNode("UpdateDraft")]_vars

\* a run at UpdateDraft after three retrievals and no approval of stage 7
C8_Witness ==
    /\ Running(1)
    /\ GraphOf(1).node.name = "UpdateDraft"
    /\ ~GraphOf(1).approved7
    /\ GraphOf(1).retrievals = 3
    /\ GraphOf(1).state.complementary_info_num = 3

\* C9: complementary_info_num is between 0 and 3 and no step of a run
\* decreases it.
C9_CounterBoundedAndMonotone ==
    /\ [](Running(1) => GraphOf(1).state.complementary_info_num \in 0 .. 3)
    /\ [][(Running(1) /\ Running(1)') =>
             GraphOf(1)'.state.complementary_info_num
                 >= GraphOf(1).state.complementary_info_num]_vars

\* a run whose counter has reached 3
C9_Witness ==
    Running(1) /\ GraphOf(1).state.complementary_info_num = 3

OnceFields == StateFields \ {"complementary_info", "complementary_info_num"}

\* C10: in a run every DecisionState field other than complementary_info
\* and complementary_info_num has been assigned at most once.
C10_FieldsWrittenAtMostOnce ==
    \A t \in Tasks :
        Running(t) => \A f \in OnceFields : GraphOf(t).writes[f] <= 1

\* a run at End after a rejected result and two retrievals: the stage fields
\* written once each, complementary_info twice
C10_Witness ==
    /\ Running(1)
    /\ GraphOf(1).node = End
    /\ \A f \in {"trigger", "root_cause", "scope_definition", "decision_drafted",
                 "goals", "decision_draft_updated", "alternatives", "result",
                 "result_comment", "best_alternative_result",
                 "best_alternative_result_comment"} : GraphOf(1).writes[f] = 1
    /\ GraphOf(1).writes["complementary_info"] = 2
    /\ GraphOf(1).state.result = "r2"

\* the plain stages (stages 2-6 and 8-9), as indices of Stages
PlainStages == {1, 2, 3, 4, 5, 7, 8}

\* C11: for each of the stages 2-6 and 8-9, once its evaluator has approved
\* after k rejections the stage node has been called exactly k+1 times and
\* the stage's field holds the answer of the last, approved call; the next
\* stage is called only after that approval, and exactly once if its own
\* evaluator approves without a rejection.
C11_RetryUntilApproved ==
    Running(1) =>
        \A i \in PlainStages :
            LET s == Stages[i]
                n == Stages[i + 1]
                inv == invocations
            IN /\ inv.calls[s] <= inv.rejections[s] + 1
               /\ inv.approved[s] =>
                     /\ inv.calls[s] = inv.rejections[s] + 1
                     /\ GraphOf(1).state[FieldOf[s]] = Val(inv.answer[s])
               /\ inv.calls[n] > 0 => inv.approved[s]
               /\ (inv.approved[n] /\ inv.rejections[n] = 0) => inv.calls[n] = 1

\* a run in which AnalyzeRootCause was rejected twice and then approved:
\* three calls of it, one of ScopeDefinition, root_cause the third answer
C11_Witness ==
    /\ Running(1)
    /\ invocations.rejections["AnalyzeRootCause"] = 2
    /\ invocations.approved["AnalyzeRootCause"]
    /\ invocations.calls["AnalyzeRootCause"] = 3
    /\ invocations.approved["ScopeDefinition"]
    /\ invocations.calls["ScopeDefinition"] = 1
    /\ GraphOf(1).state.root_cause = "a2"
    /\ invocations.answer["AnalyzeRootCause"] = Some("a2")

\* the verdicts by which an evaluator approves, and those by which it rejects
Approvals == [correct : {TRUE}, comment : Comments]
Rejections == [correct : {FALSE}, comment : Comments]

\* C12: no node returns End on a rejection, and a step that ends a run is
\* the approving step of the Result evaluator, after which result,
\* result_comment, best_alternative_result and
\* best_alternative_result_comment are those of the approved answer.
C12_EndOnlyOnApprovedResult ==
    /\ [](Running(1) =>
            \A g2 \in NodeRun(GraphOf(1), Answers, ResultOutputs, Rejections) :
                g2.node # End)
    /\ [][(/\ Running(1) /\ Running(1)'
           /\ GraphOf(1).node # End
           /\ GraphOf(1)'.node = End)
              => /\ GraphOf(1).node.name = "Evaluate_Result"
                 /\ GraphOf(1)' \in NodeRun(GraphOf(1), Answers, ResultOutputs, Approvals)
                 /\ LET a == Val(GraphOf(1).node.answer)
                        state == GraphOf(1)'.state
                    IN /\ state.result = a.result
                       /\ state.result_comment = a.result_comment
                       /\ state.best_alternative_result = a.best_alternative_result
                       /\ state.best_alternative_result_comment
                              = a.best_alternative_result_comment]_vars

\* a run that has ended with the first answer of the result agent committed
C12_Witness ==
    /\ Running(1)
    /\ GraphOf(1).node = End
    /\ GraphOf(1).state.result = "r1"
    /\ GraphOf(1).state.result_comment = "rc1"
    /\ GraphOf(1).state.best_alternative_result = "b1"
    /\ GraphOf(1).state.best_alternative_result_comment = "bc1"

\* the record stored under p is completed or failed and its completed_at
\* lies more than h hours before the given hour
OldAndDone(repo, p, h, clock) ==
    LET r == Val(Get(repo, p))
    IN /\ Terminal(r.status)
       /\ ~IsNone(r.completed_at)
       /\ clock - Val(r.completed_at) > h

\* C13: after save(r), get(r.process_id) returns, from either repository, a
\* record equal to r in every field, the query included.
C13_SaveThenGetReturnsRecord ==
    [][\A process \in Records(now) :
          repo_save(process) =>
              \A repo \in {repository', networked'} :
                  LET got == Get(repo, process.process_id)
                  IN /\ ~IsNone(got)
                     /\ Val(got) = process
                     /\ HasAttr(Val(got), "query")]_vars

C15_CleanupRemovesOnlyOld ==
    [][\A h \in Hours :
          repo_cleanup_completed(h) =>
              \A p \in Ids :
                  /\ (~IsNone(Get(repository, p)) /\ IsNone(Get(repository', p)))
                         => OldAndDone(repository, p, h, now)
                  /\ (~IsNone(Get(networked, p)) /\ IsNone(Get(networked', p)))
                         => OldAndDone(networked, p, h, now)]_vars

\* C16: after cleanup_completed(h) neither repository holds a completed or
\* failed record whose completed_at is more than h hours old.
C16_CleanupLeavesNoOldRecord ==
    [][\A h \in Hours :
          repo_cleanup_completed(h) =>
              \A p \in Ids :
                  /\ ~IsNone(Get(repository', p)) => ~OldAndDone(repository', p, h, now)
                  /\ ~IsNone(Get(networked', p)) => ~OldAndDone(networked', p, h, now)]_vars

\* cleanup_completed(0) has just removed a record completed before the hour
\* of the call
C16_Witness ==
    /\ replies.call.op = "cleanup_completed"
    /\ replies.call.arg = 0
    /\ \E r \in replies.removed :
          /\ r.status = "completed"
          /\ ~IsNone(r.completed_at)
          /\ replies.call.at - Val(r.completed_at) > 0

\* C17: every call returns the same from the in-memory repository as from
\* the Redis one, both driven with the same calls from empty.
C17_RepositoriesAnswerAlike ==
    replies.memory = replies.redis

\* C18: execute_process on an id under which nothing is stored does
\* nothing, with or without a query: it returns without starting the graph
\* and leaves the repository as it was.
C18_ExecuteOnMissingIsNoOp ==
    [][\A t \in Tasks, p \in issued \cup {NoSuchId}, q \in OptionalQueries :
          (~Stored(p) /\ execute_process(t, p, q))
              => /\ repository' = repository
                 /\ tasks'[t].pc = "done"
                 /\ IsNone(tasks'[t].graph)]_vars

\* C19: execute_process called without a query on a stored record that
\* create_process made for query q starts the graph with
\* decision_requested = q, as the call with q passed would.
C19_ExecuteResolvesStoredQuery ==
    [][\A t \in Tasks, p \in DOMAIN requested :
          (Stored(p) /\ execute_process(t, p, None))
              => /\ tasks'[t].pc = "running"
                 /\ tasks'[t].graph = Some(run_decision(requested[p]))
                 /\ repository' = repository]_vars

StageNo(name) ==
    IF name = "GetDecision" THEN 0
    ELSE IF name \in StageNames
    THEN CHOOSE i \in DOMAIN Stages : Stages[i] = name
    ELSE IF name \in EvaluatorNames
    THEN CHOOSE i \in DOMAIN Evaluators : Evaluators[i] = name
    ELSE Len(Stages) + 1

\* the node that follows stage i in the workflow
Following(i) == IF i = Len(Stages) THEN "End" ELSE Stages[i + 1]

\* C25: an evaluator node returns the stage that follows its own on every
\* approving verdict and its own stage on every rejecting verdict (the
\* evaluator of IdentifyInformationNeeded may return either on a rejection);
\* a stage node returns its own evaluator; and no step of a run skips a
\* stage or goes back to an earlier one.
C25_FixedPipelineOrder ==
    /\ [](Running(1) =>
            LET g == GraphOf(1)
            IN \A i \in DOMAIN Evaluators :
                  g.node.name = Evaluators[i] =>
                     /\ \A g2 \in NodeRun(g, Answers, ResultOutputs, Approvals) :
                           g2.node.name = Following(i)
                     /\ \A g2 \in NodeRun(g, Answers, ResultOutputs, Rejections) :
                           IF Stages[i] = "IdentifyInformationNeeded"
                           THEN g2.node.name \in {Stages[i], Following(i)}
                           ELSE g2.node.name = Stages[i])
    /\ [][(Running(1) /\ Running(1)' /\ GraphOf(1)' # GraphOf(1))
             => LET n == GraphOf(1).node.name
                    n2 == GraphOf(1)'.node.name
                IN /\ StageNo(n2) \in {StageNo(n), StageNo(n) + 1}
                   /\ n \in StageNames => n2 = Evaluators[StageNo(n)]
                   /\ n \in EvaluatorNames => n2 \in {Stages[StageNo(n)], Following(StageNo(n))}
                   /\ n = "GetDecision" => n2 = Stages[1]]_vars

\* a run that was forced past IdentifyInformationNeeded without an approval
\* and whose UpdateDraft stage has run again after a rejection
C25_Witness ==
    /\ Running(1)
    /\ GraphOf(1).node.name = "Evaluate_UpdateDraft"
    /\ ~GraphOf(1).approved7
    /\ GraphOf(1).state.complementary_info_num = MaxComplementaryInfo
    /\ \E k \in DOMAIN GraphOf(1).prompt : GraphOf(1).prompt[k] = RetryText

\* the keys of the statistics: one per status, and the total
StatKeys == Statuses \cup {"total"}

\* the statistics give the five counts of the records given
CountsOf(stats, processes) ==
    /\ DOMAIN stats = StatKeys
    /\ \A status \in Statuses : stats[status] = CountStatus(processes, status)
    /\ stats.total = stats.pending + stats.running + stats.completed + stats.failed

\* C23: get_stats of the ProcessManager and of each repository returns a
\* count under each of pending, running, completed, failed and total; each
\* count is the number of stored records with that status and total is the
\* sum of the four.
C23_StatsCountEveryStatus ==
    /\ CountsOf(ManagerGetStats(repository), InMemoryListAll(repository))
    /\ CountsOf(ManagerGetStats(networked), RedisListAll(networked))
    /\ replies.call.op = "get_stats" =>
          /\ CountsOf(replies.memory.value, InMemoryListAll(repository))
          /\ CountsOf(replies.redis.value, RedisListAll(networked))

C21_BackendFailureDegrades ==
    [][(replies' # replies /\ replies'.call.backend = "down") =>
          LET op == replies'.call.op
              reply == replies'.redis
          IN /\ IsNone(reply.raised)
             /\ op = "save" => reply.value = None /\ networked' = networked
             /\ op = "get" => reply.value = None
             /\ op = "exists" => reply.value = FALSE
             /\ op = "delete" => reply.value = FALSE
             /\ op = "list_all" => reply.value = {}
             /\ op = "cleanup_completed" => reply.value = 0]_vars

WithId(processes, process_id) == {x \in processes : x.process_id = process_id}

\* C24: in every store state and for every record r, both repositories are
\* after save(r); save(r) as they are after save(r) alone (records, set of
\* all ids, sorted set of completed ids, expiries), and list_all then holds
\* exactly one record with r's id.
C24_SaveIsIdempotentUpsert ==
    \A r \in Records(now) :
        LET m1 == InMemorySave(repository, r).repo
            m2 == InMemorySave(m1, r).repo
            n1 == RedisSave(networked, r).repo
            n2 == RedisSave(n1, r).repo
        IN /\ m2 = m1
           /\ n2 = n1
           /\ Cardinality(WithId(InMemoryListAll(m2), r.process_id)) = 1
           /\ Cardinality(WithId(RedisListAll(n2), r.process_id)) = 1

PlainEvaluators == {Evaluators[i] : i \in {1, 2, 3, 4, 5, 7, 8}}

\* C31: when the evaluator of one of stages 2-6, 8 and 9 runs, the context
\* of its validation call contains the answer the evaluator node carries,
\* the one committed on approval.
C31_EvaluatorSeesAnswer ==
    [][(/\ Running(1) /\ Running(1)'
        /\ GraphOf(1).node.name \in PlainEvaluators)
       => \E k \in DOMAIN GraphOf(1)'.validation :
             GraphOf(1)'.validation[k] = Val(GraphOf(1).node.answer)]_vars


\* the values a prompt is built from
PromptValues(prompt) == {prompt[k] : k \in DOMAIN prompt}

\* C32: after the Result evaluator rejects an answer, the prompt of the next
\* Result stage call contains the comment of the verdict and the four fields
\* of the rejected answer.
C32_RetryPromptCarriesRejectedResult ==
    Running(1) /\ GraphOf(1).node.name = "Evaluate_Result" =>
        LET rejected == Val(GraphOf(1).node.answer)
        IN \A verdict \in Rejections :
              \A again \in NodeRun(Evaluate_Result(GraphOf(1), verdict),
                                   Answers, ResultOutputs, EvaluationOutput) :
                  /\ verdict.comment \in PromptValues(again.prompt)
                  /\ {rejected.result, rejected.result_comment,
                      rejected.best_alternative_result,
                      rejected.best_alternative_result_comment}
                        \subseteq PromptValues(again.prompt)


\* C33: a rejection by the evaluator of IdentifyInformationNeeded while
\* complementary_info_num < 3 makes one retrieval call whose context holds
\* the rejected answer, appends the retrieved text to complementary_info,
\* adds 1 to complementary_info_num and re-enters the stage with the
\* complementary_info flag set and no evaluation; no other step makes a
\* retrieval call, and complementary_info_num is the number of retrieval
\* calls of the run.
C33_RetrievalPerRejection ==
    /\ [](Running(1) =>
            /\ GraphOf(1).state.complementary_info_num = GraphOf(1).retrievals
            /\ Len(GraphOf(1).state.complementary_info) = GraphOf(1).retrievals)
    /\ [][(Running(1) /\ Running(1)' /\ GraphOf(1)' # GraphOf(1)) =>
             LET g == GraphOf(1)
                 g2 == GraphOf(1)'
             IN IF /\ g.node.name = "Evaluate_IdentifyInformationNeeded"
                   /\ ~g2.approved7
                   /\ g.state.complementary_info_num < MaxComplementaryInfo
                THEN /\ g2.retrievals = g.retrievals + 1
                     /\ Val(g.node.answer) \in {g2.retrieval[k] : k \in DOMAIN g2.retrieval}
                     /\ \E info \in Infos :
                           g2.state.complementary_info
                              = Append(g.state.complementary_info, info)
                     /\ g2.state.complementary_info_num
                           = g.state.complementary_info_num + 1
                     /\ g2.node = Node("IdentifyInformationNeeded",
                                       None, Some(TRUE), None)
                ELSE /\ g2.retrievals = g.retrievals
                     /\ g2.retrieval = g.retrieval
                     /\ g2.state.complementary_info = g.state.complementary_info
                     /\ g2.state.complementary_info_num
                           = g.state.complementary_info_num]_vars

\* the stage re-entered with the complementary_info flag set after the
\* second retrieval of the run, made for the answer "a2"
C33_Witness ==
    /\ Running(1)
    /\ GraphOf(1).node = Node("IdentifyInformationNeeded", None, Some(TRUE), None)
    /\ GraphOf(1).retrievals = 2
    /\ GraphOf(1).state.complementary_info_num = 2
    /\ GraphOf(1).retrieval = << GraphOf(1).state.decision_drafted, "a2" >>


\* C34: with no failing call of the Reasoning Service and every evaluator
\* but that of IdentifyInformationNeeded approving in the end, every run
\* reaches End; the loop of IdentifyInformationNeeded ends without such an
\* assumption.
C34_RunReachesEnd == <>(Running(1) /\ GraphOf(1).node = End)

\* a run at End whose stage-7 evaluator never approved and whose Result
\* stage was repeated after a rejection
C34_Witness ==
    /\ Running(1)
    /\ GraphOf(1).node = End
    /\ ~GraphOf(1).approved7
    /\ GraphOf(1).retrievals = MaxComplementaryInfo
    /\ RetryText \in PromptValues(GraphOf(1).prompt)


OthersUntouched(process_id) ==
    \A p \in Ids \ {process_id} : Get(repository', p) = Get(repository, p)

\* C36: every step of an execute_process call for process_id (its start,
\* its terminal write after the engine has returned, its terminal write
\* after an error) leaves the records under all other ids as they were,
\* and a result it stores is the final DecisionState of its own run, made
\* for its own query.
C36_ExecuteTouchesOwnRecordOnly ==
    [][\A t \in Tasks :
          LET process_id == tasks[t].process_id
          IN /\ \A g \in EndsOf(tasks[t]) :
                   run_returns(t, g) =>
                      /\ OthersUntouched(process_id)
                      /\ (Stored(process_id) /\ StoredAfter(process_id)) =>
                            /\ RecAfter(process_id).result = Some(g.state)
                            /\ g.state.decision_requested
                                  = Val(tasks[t].decision_query)
             /\ \A m \in ErrorMessages :
                   (/\ tasks[t].pc = "running"
                    /\ service_error(t, FailingRun(tasks[t]), m))
                      => OthersUntouched(process_id)
             /\ \A p \in issued \cup {NoSuchId}, q \in OptionalQueries :
                   execute_process(t, p, q) => OthersUntouched(p)]_vars

\* two calls for two ids and two queries: one still running the engine with
\* its record pending, the other returned with its own result stored
C36_Witness ==
    \E t1, t2 \in Tasks :
        /\ Running(t1)
        /\ tasks[t2].pc = "done"
        /\ tasks[t1].process_id # tasks[t2].process_id
        /\ Stored(tasks[t1].process_id)
        /\ Rec(tasks[t1].process_id).status = "pending"
        /\ Stored(tasks[t2].process_id)
        /\ Rec(tasks[t2].process_id).status = "completed"
        /\ Val(Rec(tasks[t2].process_id).result).decision_requested
              # Val(tasks[t1].decision_query)


\* C37: a rejection by an evaluator other than that of
\* IdentifyInformationNeeded, and an advance of that evaluator to
\* UpdateDraft (approved or forced), assign no field of DecisionState.
C37_RejectionLeavesStateUnchanged ==
    Running(1) =>
        LET g == GraphOf(1)
        IN /\ g.node.name \in UnboundedEvaluators =>
                 \A g2 \in NodeRun(g, Answers, ResultOutputs, Rejections) :
                     g2.state = g.state /\ g2.writes = g.writes
           /\ g.node.name = "Evaluate_IdentifyInformationNeeded" =>
                 \A g2 \in NodeRun(g, Answers, ResultOutputs, EvaluationOutput) :
                     g2.node.name = "UpdateDraft" =>
                         g2.state = g.state /\ g2.writes = g.writes

\* the Result stage entered again after a rejection, in a run that was
\* forced past IdentifyInformationNeeded: the four result fields are still
\* unassigned
C37_Witness ==
    /\ Running(1)
    /\ GraphOf(1).node.name = "Result"
    /\ ~IsNone(GraphOf(1).node.evaluation)
    /\ ~GraphOf(1).approved7
    /\ GraphOf(1).state.complementary_info_num = MaxComplementaryInfo
    /\ GraphOf(1).writes["result"] = 0
    /\ GraphOf(1).state.result = ""


\* the fields committed by the evaluators of the plain stages, and the four
\* fields committed by the evaluator of Result
OwnedFields == {FieldOf[s] : s \in DOMAIN FieldOf}
ResultFields == {"result", "result_comment", "best_alternative_result",
                 "best_alternative_result_comment"}

\* C38: when a stage node (or its evaluator) is about to run, the field of
\* every earlier stage has been assigned, once, by the approval of that
\* stage's evaluator; an assigned field keeps its value for the rest of the
\* run; and at End all seven fields and the four result fields are assigned.
C38_EarlierFieldsCommitted ==
    /\ [](Running(1) =>
            LET g == GraphOf(1)
            IN /\ \A j \in DOMAIN Stages :
                     (j < StageNo(g.node.name) /\ Stages[j] \in DOMAIN FieldOf)
                        => g.writes[FieldOf[Stages[j]]] = 1
               /\ g.node = End =>
                     \A f \in OwnedFields \cup ResultFields : g.writes[f] = 1)
    /\ [][(Running(1) /\ Running(1)') =>
             \A f \in OwnedFields \cup ResultFields :
                 GraphOf(1).writes[f] >= 1 =>
                     /\ GraphOf(1)'.state[f] = GraphOf(1).state[f]
                     /\ GraphOf(1)'.writes[f] = GraphOf(1).writes[f]]_vars

\* a run at End whose stages answered "a1" and "a2" in turn, after a
\* rejection of the result and without an approval of stage 7
C38_Witness ==
    /\ Running(1)
    /\ GraphOf(1).node = End
    /\ ~GraphOf(1).approved7
    /\ GraphOf(1).state.trigger = "a1"
    /\ GraphOf(1).state.root_cause = "a2"
    /\ GraphOf(1).state.goals = "a2"
    /\ GraphOf(1).state.alternatives = "a1"
    /\ GraphOf(1).state.result = "r2"
    /\ RetryText \in PromptValues(GraphOf(1).prompt)


\* the ids for which exists was true in repo and is false in after
Removed(repo, after) == {p \in Ids : Exists(repo, p) /\ ~Exists(after, p)}

====
